---------------------------- MODULE Spec2Model ----------------------------
(***************************************************************************)
(* Model of scripts/summarize_platesv3.py: the license plate log           *)
(* summarizer.  main() resolves the similarity threshold, then             *)
(* parse_license_plate_log() reads the log line by line, aggregates the    *)
(* plate readings per distinct text, groups similar texts                  *)
(* (group_similar_plates, calculate_similarity), builds one summary row    *)
(* per group and sorts the rows; main() then writes the CSV table, the     *)
(* text report and the console statistics.                                 *)
(*                                                                         *)
(* Plate texts and typed arguments are sequences of one-character strings. *)
(* Confidences are whole numbers; a similarity and a mean are kept as      *)
(* exact fractions [num, den] and compared by cross-multiplication, and    *)
(* confidence_level is kept in hundredths (round(x, 2) * 100).             *)
(***************************************************************************)
EXTENDS Integers, Sequences, FiniteSets

VARIABLES
    pc,                   \* position of main(): see PcValues
    supplied,             \* the threshold text main() was given (argv[2] or the prompt answer)
    similarity_threshold, \* main's similarity_threshold
    log,                  \* the lines of the input file read so far
    current_frame,        \* parse_license_plate_log's current_frame (None until a Frame line)
    plate_data,           \* the insertion-ordered mapping text -> confidences, frames
    events,               \* the plate readings appended to plate_data so far, in order
    outcome,              \* how parse_license_plate_log ended
    grouped_plates,       \* the list group_similar_plates returned
    df,                   \* the table parse_license_plate_log returned
    csv_status,           \* save_results: not called, saved, or failed
    report_status,        \* save_report: not called, saved, or failed
    console,              \* what main() printed last: nothing, no_file, no_data, summary, statistics
    call_plate1,          \* the arguments of a call of calculate_similarity on its own
    call_plate2,
    call_result           \* what that call returned

\* main's own state, the locals of parse_license_plate_log, and the lone call.
mainVars  == <<pc, supplied, similarity_threshold, df, csv_status, report_status, console>>
parseVars == <<log, current_frame, plate_data, events, outcome, grouped_plates>>
callVars  == <<call_plate1, call_plate2, call_result>>
vars == <<mainVars, parseVars, callVars>>

(***************************************************************************)
(* Bounds of the model.                                                    *)
(***************************************************************************)
MaxLines == 4

\* The plate texts a log line may carry.
PlateTexts == { <<"A","B","C">>, <<"A","B">>, <<"B","C">> }

\* The confidences a plate line may carry.
Confidences == {70, 90}

\* The frame numbers a Frame line may carry.
FrameNumbers == {0, 1}

\* The threshold texts the user may supply; NoText stands for an absent
\* argv[2] or an empty prompt answer.
NoText == <<>>
ThresholdTexts == { NoText, <<"x">>, <<"n","a","n">>, <<"-","1">>, <<"1","0","1">>,
                    <<"0">>, <<"5","0">>, <<"1","0","0">> }

\* The texts calculate_similarity is called on when it is checked on its own:
\* every text over TextAlphabet of 1..MaxTextLen characters.
MaxTextLen == 4
TextAlphabet == {"A", "B"}
Texts == UNION { [1..n -> TextAlphabet] : n \in 1..MaxTextLen }

\* current_frame = None: no Frame line yet (a frame number is \d+, never negative).
None == -1

\* similarity_threshold = 80.0
DefaultThreshold == 80

(***************************************************************************)
(* calculate_similarity: difflib.SequenceMatcher(None, a, b).ratio() * 100 *)
(***************************************************************************)
RECURSIVE RunLen(_, _, _, _, _, _)
\* The length of the longest common run a[i..] = b[j..] inside a[..ahi], b[..bhi].
RunLen(a, b, i, j, ahi, bhi) ==
    IF i > ahi \/ j > bhi THEN 0
    ELSE IF a[i] # b[j] THEN 0
    ELSE 1 + RunLen(a, b, i + 1, j + 1, ahi, bhi)

\* SequenceMatcher.find_longest_match on a[alo..ahi], b[blo..bhi] (1-based,
\* inclusive): the longest common block, of those the one starting earliest
\* in a, and of those the one starting earliest in b.
find_longest_match(a, b, alo, ahi, blo, bhi) ==
    LET starts == (alo..ahi) \X (blo..bhi)
        len(s) == RunLen(a, b, s[1], s[2], ahi, bhi)
        hits   == {s \in starts : len(s) > 0}
    IN  IF hits = {} THEN [i |-> alo, j |-> blo, size |-> 0]
        ELSE LET best == CHOOSE s \in hits :
                            \A t \in hits :
                                \/ len(s) > len(t)
                                \/ /\ len(s) = len(t)
                                   /\ \/ s[1] < t[1]
                                      \/ s[1] = t[1] /\ s[2] <= t[2]
             IN  [i |-> best[1], j |-> best[2], size |-> len(best)]

RECURSIVE matching_size(_, _, _, _, _, _)
\* The total size of SequenceMatcher.get_matching_blocks: the longest block,
\* then the same to its left and to its right.
matching_size(a, b, alo, ahi, blo, bhi) ==
    IF alo > ahi \/ blo > bhi THEN 0
    ELSE LET m == find_longest_match(a, b, alo, ahi, blo, bhi)
         IN  IF m.size = 0 THEN 0
             ELSE m.size
                  + matching_size(a, b, alo, m.i - 1, blo, m.j - 1)
                  + matching_size(a, b, m.i + m.size, ahi, m.j + m.size, bhi)

\* ratio() * 100 = 100 * 2M / T as the fraction num/den (1.0 * 100 when T = 0).
calculate_similarity(plate1, plate2) ==
    LET T == Len(plate1) + Len(plate2)
        M == matching_size(plate1, plate2, 1, Len(plate1), 1, Len(plate2))
    IN  IF T = 0 THEN [num |-> 100, den |-> 1]
        ELSE [num |-> 200 * M, den |-> T]

\* similarity >= similarity_threshold
MeetsThreshold(similarity, threshold) ==
    similarity.num >= threshold * similarity.den


(***************************************************************************)
(* group_similar_plates                                                    *)
(***************************************************************************)
\* sum(confidences) / len(confidences) as a fraction.
RECURSIVE Sum(_)
Sum(s) == IF s = <<>> THEN 0 ELSE Head(s) + Sum(Tail(s))

average(confidences) == [num |-> Sum(confidences), den |-> Len(confidences)]

\* plate_data[plate]
Lookup(data, plate) == data[CHOOSE k \in 1..Len(data) : data[k].plate = plate]

\* line 41: if similarity >= similarity_threshold
ComparesStrictly(main_plate, other_plate, threshold) ==
    LET similarity == calculate_similarity(main_plate, other_plate)
    IN  similarity.num > threshold * similarity.den

ComparesInverted(main_plate, other_plate, threshold) ==
    LET similarity == calculate_similarity(main_plate, other_plate)
    IN  similarity.num <= threshold * similarity.den

IsSimilar(main_plate, other_plate, threshold) ==
    MeetsThreshold(calculate_similarity(main_plate, other_plate), threshold)

\* line 45: used_plates.add(other_plate)
ForgetsUsed(used_plates, other_plate) == used_plates

AddUsed(used_plates, other_plate) == used_plates \cup {other_plate}

\* line 55: if avg_conf > best_avg_confidence
NotWorse(avg_conf, best_avg_confidence) ==
    avg_conf.num * best_avg_confidence.den >= best_avg_confidence.num * avg_conf.den

IsBetter(avg_conf, best_avg_confidence) ==
    avg_conf.num * best_avg_confidence.den > best_avg_confidence.num * avg_conf.den

RECURSIVE ScanOthers(_, _, _, _, _)
\* lines 36-45: the scan of plates[i+1:] against the seed main_plate; g holds
\* similar_group, the combined lists and used_plates.
ScanOthers(data, threshold, main_plate, j, g) ==
    IF j > Len(data) THEN g
    ELSE LET other_plate == data[j].plate
         IN  IF other_plate \in g.used_plates
             THEN ScanOthers(data, threshold, main_plate, j + 1, g)
             ELSE IF IsSimilar(main_plate, other_plate, threshold)
             THEN ScanOthers(data, threshold, main_plate, j + 1,
                      [similar_group |-> Append(g.similar_group, other_plate),
                       confidences   |-> g.confidences \o data[j].confidences,
                       frames        |-> g.frames \o data[j].frames,
                       used_plates   |-> AddUsed(g.used_plates, other_plate)])
             ELSE ScanOthers(data, threshold, main_plate, j + 1, g)

RECURSIVE PickBest(_, _, _, _)
\* lines 50-57: the member with the highest average confidence, the seed first.
PickBest(data, similar_group, k, best) ==
    IF k > Len(similar_group) THEN best.plate
    ELSE LET avg_conf == average(Lookup(data, similar_group[k]).confidences)
         IN  IF IsBetter(avg_conf, best.avg)
             THEN PickBest(data, similar_group, k + 1,
                           [plate |-> similar_group[k], avg |-> avg_conf])
             ELSE PickBest(data, similar_group, k + 1, best)

RECURSIVE GroupLoop(_, _, _, _, _)
\* lines 25-66: the loop over plates, with used_plates and grouped_results.
GroupLoop(data, threshold, i, used_plates, grouped_results) ==
    IF i > Len(data) THEN grouped_results
    ELSE IF data[i].plate \in used_plates
    THEN GroupLoop(data, threshold, i + 1, used_plates, grouped_results)
    ELSE LET main_plate == data[i].plate
             g == ScanOthers(data, threshold, main_plate, i + 1,
                      [similar_group |-> <<main_plate>>,
                       confidences   |-> data[i].confidences,
                       frames        |-> data[i].frames,
                       used_plates   |-> used_plates])
             best_plate == PickBest(data, g.similar_group, 2,
                               [plate |-> main_plate,
                                avg   |-> average(data[i].confidences)])
             NotBest(p) == p # best_plate
         IN  GroupLoop(data, threshold, i + 1, g.used_plates \cup {main_plate},
                 Append(grouped_results,
                     [main_plate      |-> best_plate,
                      similar_plates  |-> SelectSeq(g.similar_group, NotBest),
                      all_confidences |-> g.confidences,
                      all_frames      |-> g.frames]))

group_similar_plates(data, threshold) == GroupLoop(data, threshold, 1, {}, <<>>)


(***************************************************************************)
(* parse_license_plate_log: the loop body, the rows, the sort              *)
(***************************************************************************)
\* A line of the log as the two regular expressions of lines 94 and 101 see
\* it: a Frame marker with its number, a plate reading with its text and
\* confidence, or anything else.
Lines ==
    [kind : {"frame"}, number : FrameNumbers]
    \cup [kind : {"plate"}, plate : PlateTexts, confidence : Confidences]
    \cup {[kind |-> "other"]}

\* line 102: ... and current_frame is not None
FrameIsTruthy(frame) == frame # None /\ frame # 0

FrameIsSet(frame) == frame # None

\* lines 106-107: plate_data[plate_number] (created empty on first use), then
\* the two appends.
ReplaceReading(data, plate, confidence, frame) ==
    IF \E k \in 1..Len(data) : data[k].plate = plate
    THEN [k \in 1..Len(data) |->
             IF data[k].plate = plate
             THEN [plate       |-> plate,
                   confidences |-> <<confidence>>,
                   frames      |-> <<frame>>]
             ELSE data[k]]
    ELSE Append(data, [plate |-> plate, confidences |-> <<confidence>>,
                       frames |-> <<frame>>])

AppendReading(data, plate, confidence, frame) ==
    IF \E k \in 1..Len(data) : data[k].plate = plate
    THEN [k \in 1..Len(data) |->
             IF data[k].plate = plate
             THEN [plate       |-> plate,
                   confidences |-> Append(data[k].confidences, confidence),
                   frames      |-> Append(data[k].frames, frame)]
             ELSE data[k]]
    ELSE Append(data, [plate |-> plate, confidences |-> <<confidence>>,
                       frames |-> <<frame>>])

\* lines 91-107: one turn of the loop over the file's lines.
ProcessLine(line, frame, data, evs) ==
    IF line.kind = "frame"
    THEN [current_frame |-> line.number, plate_data |-> data, events |-> evs]
    ELSE IF line.kind = "plate" /\ FrameIsSet(frame)
    THEN [current_frame |-> frame,
          plate_data    |-> AppendReading(data, line.plate, line.confidence, frame),
          events        |-> Append(evs, [frame_number |-> frame,
                                         plate_text   |-> line.plate,
                                         confidence   |-> line.confidence])]
    ELSE [current_frame |-> frame, plate_data |-> data, events |-> evs]

RECURSIVE Join(_)
\* ', '.join(plates)
Join(plates) ==
    IF plates = <<>> THEN <<>>
    ELSE IF Len(plates) = 1 THEN plates[1]
    ELSE plates[1] \o <<",", " ">> \o Join(Tail(plates))

\* round(sum / len, 2), in hundredths: to the nearest, a tie to the even one.
Round2(sum, len) ==
    LET q == (sum * 100) \div len
        r == (sum * 100) % len
    IN  IF 2 * r > len THEN q + 1
        ELSE IF 2 * r < len THEN q
        ELSE IF q % 2 = 0 THEN q ELSE q + 1

RECURSIVE Min(_)
Min(s) == IF Len(s) = 1 THEN s[1]
          ELSE LET m == Min(Tail(s)) IN IF s[1] <= m THEN s[1] ELSE m

RECURSIVE Max(_)
Max(s) == IF Len(s) = 1 THEN s[1]
          ELSE LET m == Max(Tail(s)) IN IF s[1] >= m THEN s[1] ELSE m

\* line 128: 'first_frame': min(group['all_frames'])
FirstListed(all_frames) == all_frames[1]

FirstFrame(all_frames) == Min(all_frames)

\* lines 124-131: the row of one group.
Row(group) ==
    [plate_found      |-> group.main_plate,
     similar_plates   |-> Join(group.similar_plates),
     confidence_level |-> Round2(Sum(group.all_confidences), Len(group.all_confidences)),
     first_frame      |-> FirstFrame(group.all_frames),
     last_frame       |-> Max(group.all_frames),
     total_detections |-> Len(group.all_frames)]

\* lines 120-131: results, a row for every group that has frames.
BuildResults(grouped) ==
    LET HasFrames(group) == group.all_frames # <<>>
        kept == SelectSeq(grouped, HasFrames)
    IN  [k \in 1..Len(kept) |-> Row(kept[k])]

Permutations(n) ==
    {p \in [1..n -> 1..n] : \A i, j \in 1..n : i # j => p[i] # p[j]}

\* line 136: df.sort_values('confidence_level', ascending=False) with the
\* default kind='quicksort', which is not a stable sort: every descending
\* arrangement of the rows is a possible result.
sort_values(results) ==
    {[k \in 1..Len(results) |-> results[p[k]]] : p \in
        {q \in Permutations(Len(results)) :
            \A i, j \in 1..Len(results) :
                i < j => results[q[i]].confidence_level >= results[q[j]].confidence_level}}

(***************************************************************************)
(* main: the threshold                                                     *)
(***************************************************************************)
DigitChars == <<"0", "1", "2", "3", "4", "5", "6", "7", "8", "9">>

IsDigits(text) ==
    text # <<>> /\ \A k \in 1..Len(text) : \E d \in 1..10 : DigitChars[d] = text[k]

RECURSIVE DigitsValue(_)
DigitsValue(text) ==
    IF text = <<>> THEN 0
    ELSE 10 * DigitsValue(SubSeq(text, 1, Len(text) - 1))
         + (CHOOSE d \in 0..9 : DigitChars[d + 1] = text[Len(text)])

\* float(text) on the texts of ThresholdTexts: "nan", a whole number with an
\* optional minus sign, or a ValueError (ok = FALSE).
float(text) ==
    IF text = <<"n", "a", "n">> THEN [ok |-> TRUE, nan |-> TRUE, value |-> 0]
    ELSE IF IsDigits(text) THEN [ok |-> TRUE, nan |-> FALSE, value |-> DigitsValue(text)]
    ELSE IF Len(text) > 1 /\ text[1] = "-" /\ IsDigits(Tail(text))
    THEN [ok |-> TRUE, nan |-> FALSE, value |-> 0 - DigitsValue(Tail(text))]
    ELSE [ok |-> FALSE, nan |-> FALSE, value |-> 0]

\* lines 184, 200: 0 <= similarity_threshold <= 100 (False for nan)
NoUpperBound(f) == ~f.nan /\ 0 <= f.value

InRange(f) == ~f.nan /\ 0 <= f.value /\ f.value <= 100

\* lines 181-189 and 197-205: the threshold main ends with, given the text
\* supplied (none: the default stays).
ResolveThreshold(text) ==
    IF text = NoText THEN DefaultThreshold
    ELSE LET f == float(text)
         IN  IF ~f.ok THEN DefaultThreshold
             ELSE IF ~InRange(f) THEN DefaultThreshold
             ELSE f.value

(***************************************************************************)
(* The state machine of main()                                             *)
(***************************************************************************)
PcValues == {"start", "configured", "reading", "returned", "save_csv",
             "save_report", "statistics", "done"}

NotSupplied == [path |-> "none", text |-> NoText]

NoLocals ==
    /\ log = <<>>
    /\ current_frame = None
    /\ plate_data = <<>>
    /\ events = <<>>
    /\ outcome = "none"
    /\ grouped_plates = <<>>

NoCall ==
    /\ call_plate1 = <<>>
    /\ call_plate2 = <<>>
    /\ call_result = <<>>

\* main() at line 176.
Init ==
    /\ pc = "start"
    /\ supplied = NotSupplied
    /\ similarity_threshold = DefaultThreshold
    /\ df = <<>>
    /\ csv_status = "not_called"
    /\ report_status = "not_called"
    /\ console = "nothing"
    /\ NoLocals
    /\ NoCall

\* lines 179-189: the file and the threshold come from sys.argv.
CommandLine ==
    /\ pc = "start"
    /\ \E text \in ThresholdTexts :
          /\ supplied' = [path |-> "argv", text |-> text]
          /\ similarity_threshold' = ResolveThreshold(text)
    /\ pc' = "configured"
    /\ UNCHANGED <<df, csv_status, report_status, console, parseVars, callVars>>

\* lines 191-205: the file and the threshold are asked for; an empty file
\* path ends main() before the threshold is asked for.
Prompt ==
    /\ pc = "start"
    /\ \E file_given \in BOOLEAN, text \in ThresholdTexts :
          IF file_given
          THEN /\ supplied' = [path |-> "prompt", text |-> text]
               /\ similarity_threshold' = ResolveThreshold(text)
               /\ pc' = "configured"
               /\ UNCHANGED console
          ELSE /\ console' = "no_file"
               /\ pc' = "done"
               /\ UNCHANGED <<supplied, similarity_threshold>>
    /\ UNCHANGED <<df, csv_status, report_status, parseVars, callVars>>

\* lines 109-114: what parse_license_plate_log returns from its except
\* clauses: pd.DataFrame().
TableSoFar(data, threshold) ==
    sort_values(BuildResults(group_similar_plates(data, threshold)))

ErrorTable(data, threshold) == {<<>>}

\* lines 215-219 and 89, 109-111: parse_license_plate_log is called and opens
\* the file, or finds none.  main() reads the supplied text no more.
OpenFile ==
    /\ pc = "configured"
    /\ supplied' = NotSupplied
    /\ \E found \in BOOLEAN :
          IF found
          THEN /\ pc' = "reading"
               /\ UNCHANGED <<df, outcome>>
          ELSE /\ outcome' = "not_found"
               /\ df' \in ErrorTable(plate_data, similarity_threshold)
               /\ pc' = "returned"
    /\ UNCHANGED <<similarity_threshold, csv_status, report_status, console,
                   log, current_frame, plate_data, events, grouped_plates, callVars>>

\* lines 90-107: the next line of the file is read and handled.
ReadLine ==
    /\ pc = "reading"
    /\ Len(log) < MaxLines
    /\ \E line \in Lines :
          LET st == ProcessLine(line, current_frame, plate_data, events)
          IN  /\ log' = Append(log, line)
              /\ current_frame' = st.current_frame
              /\ plate_data' = st.plate_data
              /\ events' = st.events
    /\ UNCHANGED <<mainVars, outcome, grouped_plates, callVars>>

\* lines 112-114: reading fails, after any number of lines.
ReadError ==
    /\ pc = "reading"
    /\ outcome' = "read_error"
    /\ df' \in ErrorTable(plate_data, similarity_threshold)
    /\ pc' = "returned"
    /\ UNCHANGED <<supplied, similarity_threshold, csv_status, report_status, console,
                   log, current_frame, plate_data, events, grouped_plates, callVars>>

\* lines 116-138: the file ends; the texts are grouped, the rows built and
\* sorted, and the table returned.
EndOfFile ==
    /\ pc = "reading"
    /\ outcome' = "parsed"
    /\ grouped_plates' = group_similar_plates(plate_data, similarity_threshold)
    /\ LET results == BuildResults(grouped_plates')
       IN  IF results = <<>> THEN df' = <<>> ELSE df' \in sort_values(results)
    /\ pc' = "returned"
    /\ UNCHANGED <<supplied, similarity_threshold, csv_status, report_status, console,
                   log, current_frame, plate_data, events, callVars>>

\* line 221: if results_df.empty
IsEmpty(table) == table = <<>>

\* lines 221-231: main() holds results_df (the locals of
\* parse_license_plate_log are gone); it reports no data and returns, or
\* prints the summary and goes on to save.
Report ==
    /\ pc = "returned"
    /\ IF IsEmpty(df)
       THEN console' = "no_data" /\ pc' = "done"
       ELSE console' = "summary" /\ pc' = "save_csv"
    /\ log' = <<>>
    /\ current_frame' = None
    /\ plate_data' = <<>>
    /\ events' = <<>>
    /\ outcome' = "none"
    /\ grouped_plates' = <<>>
    /\ UNCHANGED <<supplied, similarity_threshold, df, csv_status, report_status, callVars>>

\* lines 140-146 and 234-237: save_results catches a failed write, so main()
\* goes on to save_report either way.
EscapesFromSaveResults(written) == IF written THEN "save_report" ELSE "done"

AfterSaveResults(written) == "save_report"

\* lines 148-170 and 237-240: save_report catches a failed write, so main()
\* goes on to the statistics either way.
AfterSaveReport(written) == "statistics"

\* line 234: save_results(results_df, output_file)
SaveResults ==
    /\ pc = "save_csv"
    /\ \E written \in BOOLEAN :
          /\ csv_status' = IF written THEN "saved" ELSE "failed"
          /\ pc' = AfterSaveResults(written)
    /\ UNCHANGED <<supplied, similarity_threshold, df, report_status, console,
                   parseVars, callVars>>

\* line 237: save_report(results_df, input_file, report_file, similarity_threshold)
SaveReport ==
    /\ pc = "save_report"
    /\ \E written \in BOOLEAN :
          /\ report_status' = IF written THEN "saved" ELSE "failed"
          /\ pc' = AfterSaveReport(written)
    /\ UNCHANGED <<supplied, similarity_threshold, df, csv_status, console,
                   parseVars, callVars>>

\* lines 240-244: the statistics block.
PrintStatistics ==
    /\ pc = "statistics"
    /\ console' = "statistics"
    /\ pc' = "done"
    /\ UNCHANGED <<supplied, similarity_threshold, df, csv_status, report_status,
                   parseVars, callVars>>

Next ==
    \/ CommandLine
    \/ Prompt
    \/ OpenFile
    \/ ReadLine
    \/ ReadError
    \/ EndOfFile
    \/ Report
    \/ SaveResults
    \/ SaveReport
    \/ PrintStatistics

Spec == Init /\ [][Next]_vars

(***************************************************************************)
(* calculate_similarity on its own: a call on any two texts                *)
(***************************************************************************)
CallInit ==
    /\ pc = "start"
    /\ supplied = NotSupplied
    /\ similarity_threshold = DefaultThreshold
    /\ df = <<>>
    /\ csv_status = "not_called"
    /\ report_status = "not_called"
    /\ console = "nothing"
    /\ NoLocals
    /\ call_plate1 \in Texts
    /\ call_plate2 \in Texts
    /\ call_result = <<>>

\* line 8: the call returns.
Call ==
    /\ call_result = <<>>
    /\ call_result' = <<calculate_similarity(call_plate1, call_plate2)>>
    /\ UNCHANGED <<mainVars, parseVars, call_plate1, call_plate2>>

CallNext == Call

CallSpec == CallInit /\ [][CallNext]_vars

(***************************************************************************)
(* The properties                                                          *)
(***************************************************************************)
\* parse_license_plate_log has grouped and returned.
Grouped == pc = "returned" /\ outcome = "parsed"

Clusters == 1..Len(grouped_plates)

\* The member texts of a cluster, the representative first.
Members(c) == <<c.main_plate>> \o c.similar_plates

MemberSet(c) == {Members(c)[m] : m \in 1..Len(Members(c))}

\* The place of a text in discovery order (the order of plate_data's keys).
Discovery(plate) == CHOOSE k \in 1..Len(plate_data) : plate_data[k].plate = plate

\* The seed of a cluster: its first-discovered member.
Seed(c) == CHOOSE s \in MemberSet(c) :
               \A m \in MemberSet(c) : Discovery(s) <= Discovery(m)

\* The members of a cluster in discovery order.
InDiscoveryOrder(c) ==
    LET IsMember(rec) == rec.plate \in MemberSet(c)
        recs == SelectSeq(plate_data, IsMember)
    IN  [k \in 1..Len(recs) |-> recs[k].plate]

\* The events of a set of texts.
EventsOf(texts) == {n \in 1..Len(events) : events[n].plate_text \in texts}

\* Whether the mean confidence of text p over its own events is at least
\* (more than) that of text q.
ConfidenceSum(p) ==
    LET own == SelectSeq(events, LAMBDA e : e.plate_text = p)
    IN  Sum([k \in 1..Len(own) |-> own[k].confidence])

MeanAtLeast(p, q) ==
    ConfidenceSum(p) * Cardinality(EventsOf({q})) >= ConfidenceSum(q) * Cardinality(EventsOf({p}))

MeanAbove(p, q) ==
    ConfidenceSum(p) * Cardinality(EventsOf({q})) > ConfidenceSum(q) * Cardinality(EventsOf({p}))

\* C1: the clusters group_similar_plates returns partition the keys of
\* plate_data: every key is the main_plate or one of the similar_plates of
\* exactly one cluster, once, and every member is a key.
C1_ClustersPartitionTexts ==
    Grouped =>
        /\ \A k \in 1..Len(plate_data) :
              Cardinality({pos \in Clusters \X (1..Len(plate_data)) :
                              /\ pos[2] <= Len(Members(grouped_plates[pos[1]]))
                              /\ Members(grouped_plates[pos[1]])[pos[2]] = plate_data[k].plate}) = 1
        /\ \A g \in Clusters :
              /\ Len(Members(grouped_plates[g])) <= Len(plate_data)
              /\ \A p \in MemberSet(grouped_plates[g]) :
                    \E k \in 1..Len(plate_data) : plate_data[k].plate = p

\* Three texts were found and grouped into two clusters.
C1_Witness ==
    Grouped /\ Len(plate_data) = 3 /\ Len(grouped_plates) = 2

\* C2 as stated: any two distinct members of a cluster have a similarity
\* that meets the threshold.
C2_AnyTwoMembersSimilar ==
    Grouped =>
        \A g \in Clusters : \A p, q \in MemberSet(grouped_plates[g]) :
            p # q => MeetsThreshold(calculate_similarity(p, q), similarity_threshold)

\* C2: two distinct texts are in the same cluster only if each of them is the
\* cluster's seed (its first-discovered member) or has
\* calculate_similarity(seed, text) >= similarity_threshold.
C2_MembersSimilarToSeed ==
    Grouped =>
        \A g \in Clusters : \A p \in MemberSet(grouped_plates[g]) :
            p # Seed(grouped_plates[g]) =>
                MeetsThreshold(calculate_similarity(Seed(grouped_plates[g]), p),
                               similarity_threshold)

\* A cluster holds two texts that joined the same seed and whose own
\* similarity is below the threshold.
C2_Witness ==
    /\ Grouped
    /\ \E g \in Clusters : \E p, q \in MemberSet(grouped_plates[g]) :
          /\ p # q
          /\ p # Seed(grouped_plates[g])
          /\ q # Seed(grouped_plates[g])
          /\ ~MeetsThreshold(calculate_similarity(p, q), similarity_threshold)

\* C3: in every cluster main_plate is the member of highest mean confidence
\* over its own events, the first such member in discovery order, and
\* similar_plates is the other members in discovery order.
C3_RepresentativeIsFirstBest ==
    Grouped =>
        \A g \in Clusters :
            LET c == grouped_plates[g]
                order == InDiscoveryOrder(c)
                IsOther(p) == p # c.main_plate
            IN  /\ \A p \in MemberSet(c) : MeanAtLeast(c.main_plate, p)
                /\ \A p \in MemberSet(c) :
                      Discovery(p) < Discovery(c.main_plate) => MeanAbove(c.main_plate, p)
                /\ c.similar_plates = SelectSeq(order, IsOther)

\* A cluster of three whose representative is not the seed and ties with a
\* later member.
C3_Witness ==
    /\ Grouped
    /\ \E g \in Clusters :
          LET c == grouped_plates[g]
          IN  /\ Len(c.similar_plates) = 2
              /\ c.main_plate # Seed(c)
              /\ \E p \in MemberSet(c) :
                    /\ Discovery(p) > Discovery(c.main_plate)
                    /\ MeanAtLeast(p, c.main_plate)

\* The plate lines of the log that follow at least one Frame line.
Framed == {k \in 1..Len(log) :
              /\ log[k].kind = "plate"
              /\ \E j \in 1..(k - 1) : log[j].kind = "frame"}

\* The last Frame line before line k.
LastFrameBefore(k) ==
    CHOOSE j \in 1..(k - 1) :
        /\ log[j].kind = "frame"
        /\ \A i \in (j + 1)..(k - 1) : log[i].kind # "frame"

\* C4: the events are, in order, one per plate line that follows a Frame
\* line, each with the number of the last Frame line before it; a plate line
\* before every Frame line, a Frame line and any other line give no event.
C4_EventsFollowFrameMarkers ==
    /\ Len(events) = Cardinality(Framed)
    /\ \A k \in Framed :
          LET n == Cardinality({i \in Framed : i <= k})
          IN  /\ events[n].frame_number = log[LastFrameBefore(k)].number
              /\ events[n].plate_text = log[k].plate
              /\ events[n].confidence = log[k].confidence

\* A plate line before any Frame line gave no event, and a plate line after
\* the Frame lines 1 and 0 gave one, in frame 0.
C4_Witness ==
    /\ pc = "reading"
    /\ Len(log) = 4
    /\ log[1].kind = "plate"
    /\ log[2] = [kind |-> "frame", number |-> 1]
    /\ log[3] = [kind |-> "frame", number |-> 0]
    /\ log[4].kind = "plate"
    /\ Len(events) = 1
    /\ events[1].frame_number = 0

\* The cluster a row of the table was built from.
ClusterOf(row) == CHOOSE g \in Clusters : grouped_plates[g].main_plate = row.plate_found

C6_SelfHundredAndSymmetric ==
    call_result # <<>> =>
        LET forth == call_result[1]
            back  == calculate_similarity(call_plate2, call_plate1)
        IN  /\ call_plate1 = call_plate2 => forth.num = 100 * forth.den
            /\ forth.num * back.den = back.num * forth.den

\* C7: a missing file, a failed read and a log without events give an empty
\* table; with an empty table main() reports no data and ends, without
\* saving the table or the report.
C7_NoDataNoOutput ==
    /\ (pc = "returned" /\ (outcome \in {"not_found", "read_error"} \/ events = <<>>))
          => df = <<>>
    /\ df = <<>> =>
          /\ csv_status = "not_called"
          /\ report_status = "not_called"
          /\ pc \notin {"save_csv", "save_report", "statistics"}
          /\ pc = "done" => console \in {"no_file", "no_data"}

\* The read failed after events had been aggregated, and the table is empty.
C7_Witness ==
    /\ pc = "returned"
    /\ outcome = "read_error"
    /\ Len(events) >= 2
    /\ df = <<>>

\* The supplied texts that are numbers in [0, 100], with their numbers.
ValidThresholds ==
    {<<(<<"0">>), 0>>, <<(<<"5", "0">>), 50>>, <<(<<"1", "0", "0">>), 100>>}

\* C8: main's threshold is always a number in [0, 100]; once the supplied
\* text is resolved it is the text's number if that lies in [0, 100] and the
\* default 80 otherwise, on the command line and at the prompt alike.
C8_ThresholdResolved ==
    /\ similarity_threshold \in 0..100
    /\ pc = "configured" =>
          IF \E v \in ValidThresholds : v[1] = supplied.text
          THEN \E v \in ValidThresholds :
                  v[1] = supplied.text /\ similarity_threshold = v[2]
          ELSE similarity_threshold = 80

\* An out-of-range answer at the prompt was replaced by the default.
C8_Witness ==
    /\ pc = "configured"
    /\ supplied = [path |-> "prompt", text |-> <<"1", "0", "1">>]
    /\ similarity_threshold = 80

\* C9: with a non-empty table main() ends only after save_results and
\* save_report were both called and the statistics printed, whatever the two
\* writes did; the report is attempted after a failed table write.
C9_WriteFailuresDoNotAbort ==
    /\ (pc = "done" /\ df # <<>>) =>
          /\ csv_status # "not_called"
          /\ report_status # "not_called"
          /\ console = "statistics"
    /\ (csv_status # "not_called" /\ pc # "save_report") => report_status # "not_called"

\* Both writes failed and the statistics were printed.
C9_Witness ==
    /\ pc = "done"
    /\ df # <<>>
    /\ csv_status = "failed"
    /\ report_status = "failed"
    /\ console = "statistics"

\* C10: the table has one row per cluster; the row of a cluster has the
\* least and the greatest frame number and the number of the events of all
\* its member texts, so first_frame <= last_frame and total_detections >= 1.
C10_RowPerClusterWithFrameSpan ==
    Grouped =>
        /\ Len(df) = Len(grouped_plates)
        /\ \A g \in Clusters :
              LET own == EventsOf(MemberSet(grouped_plates[g]))
                  frames == {events[n].frame_number : n \in own}
              IN  \E r \in 1..Len(df) :
                     /\ df[r].plate_found = grouped_plates[g].main_plate
                     /\ \A q \in 1..Len(df) :
                           df[q].plate_found = df[r].plate_found => q = r
                     /\ df[r].first_frame \in frames
                     /\ \A f \in frames : df[r].first_frame <= f
                     /\ df[r].last_frame \in frames
                     /\ \A f \in frames : df[r].last_frame >= f
                     /\ df[r].total_detections = Cardinality(own)
                     /\ df[r].first_frame <= df[r].last_frame
                     /\ df[r].total_detections >= 1

\* The row of a cluster of two texts, the first seen in frame 1 and the
\* second in frame 0.
C10_Witness ==
    /\ Grouped
    /\ \E r \in 1..Len(df) :
          /\ df[r].similar_plates # <<>>
          /\ df[r].first_frame = 0
          /\ df[r].last_frame = 1
          /\ df[r].total_detections = 2
    /\ events[1].frame_number = 1

\* The texts consumed when the cluster of seed s is opened: the members of
\* the clusters whose seed was discovered before s.
ConsumedBefore(s) ==
    UNION {MemberSet(grouped_plates[h]) :
              h \in {h \in Clusters : Discovery(Seed(grouped_plates[h])) < Discovery(s)}}

\* C11: a text other than the seed is in the seed's cluster if and only if
\* it was discovered after the seed, was not consumed when the seed was
\* opened, and calculate_similarity(seed, text) >= similarity_threshold; a
\* seed is never a consumed text, and the similarity to other members plays
\* no part.
C11_JoinsIffSimilarToSeed ==
    Grouped =>
        \A g \in Clusters :
            LET s == Seed(grouped_plates[g])
            IN  /\ s \notin ConsumedBefore(s)
                /\ \A k \in 1..Len(plate_data) :
                      LET c == plate_data[k].plate
                      IN  c # s =>
                            (c \in MemberSet(grouped_plates[g])
                               <=> /\ Discovery(c) > Discovery(s)
                                   /\ c \notin ConsumedBefore(s)
                                   /\ MeetsThreshold(calculate_similarity(s, c),
                                                     similarity_threshold))

\* A text discovered after the seed stays outside the seed's cluster although
\* it meets the threshold against a member that joined, and a member joined
\* with a similarity equal to the threshold.
C11_Witness ==
    /\ Grouped
    /\ \E g \in Clusters : \E k \in 1..Len(plate_data) :
          LET s == Seed(grouped_plates[g])
              c == plate_data[k].plate
          IN  /\ c \notin MemberSet(grouped_plates[g])
              /\ Discovery(c) > Discovery(s)
              /\ ~MeetsThreshold(calculate_similarity(s, c), similarity_threshold)
              /\ \E m \in MemberSet(grouped_plates[g]) :
                    /\ m # s
                    /\ calculate_similarity(s, m).num
                          = similarity_threshold * calculate_similarity(s, m).den
                    /\ MeetsThreshold(calculate_similarity(m, c), similarity_threshold)

\* C12: the total_detections of the rows of the returned table add up to the
\* number of events, which is the number of plate lines that follow a Frame
\* line.
C12_DetectionsConserved ==
    Grouped =>
        /\ Sum([r \in 1..Len(df) |-> df[r].total_detections]) = Len(events)
        /\ Len(events) = Cardinality(Framed)

\* A plate line before the Frame line was dropped, and the two events of one
\* text are counted in one row.
C12_Witness ==
    /\ Grouped
    /\ Len(log) = 4
    /\ log[1].kind = "plate"
    /\ Len(events) = 2
    /\ Len(df) = 1
    /\ df[1].total_detections = 2
    /\ df[1].similar_plates = <<>>

=============================================================================
